---- MODULE Spec2Model ----
(***************************************************************************)
(* Hyperion server core (crates/server/src):                               *)
(*   - the vitals/damage state machine (components.rs);                    *)
(*   - the game loop, its pacer, its tick statistics and its shutdown      *)
(*     (lib.rs);                                                           *)
(*   - the order in which the handlers of a tick run (lib.rs);             *)
(*   - the player index (system/rebuild_player_location.rs);               *)
(*   - FullEntityPose and its bounding box (components.rs);                *)
(*   - the access of the handlers to the record kinds (system/*.rs);       *)
(*   - the keep-alive of one connection (KeepAlive in components.rs);      *)
(*   - get_inventory_actions and give_command acting on the inventories    *)
(*     and the packets of two players (system/inventory_systems.rs).       *)
(*                                                                         *)
(* f32 health values are modelled as integers: every value the model uses  *)
(* is a small integer, which f32 represents and adds/subtracts exactly.    *)
(* Instants and Durations are seconds plus nanoseconds, as in std::time.   *)
(* The f32 coordinates of a pose are rounded as f32 rounds them.           *)
(***************************************************************************)
EXTENDS Integers, Sequences, FiniteSets, TLC

VARIABLES
    vitals,     \* the entity's Vitals component (Alive{..} or Dead{..})
    immune,     \* the entity's ImmuneStatus component
    global,     \* the Global singleton: tick, max_hurt_resistant_time
    call,       \* the last heal/hurt call: its arguments and the values before it
    last_ticks,       \* Game::last_ticks: VecDeque<Instant>
    last_ms_per_tick, \* Game::last_ms_per_tick: VecDeque<f64>, kept in nanoseconds
    tick_on,          \* Game::tick_on
    calls,            \* history: the calls of Game::tick started, returned, and
                      \* started while SHUTDOWN was already set
    SHUTDOWN,         \* the SHUTDOWN atomic
    clock,            \* the monotonic clock read by Instant::now()
    pc,               \* where the driver thread is in game_loop
    wait,             \* what wait_duration returned to game_loop
    sent,             \* the events the last tick sent to the world, in order
    entities,         \* the world's entities: id -> components, or NoEntity
    lookup,           \* PlayerBoundingBoxes::query: the items of the Bvh
    rebuilt,          \* history: the last handler run was rebuild_player_location
    pose,             \* one entity's FullEntityPose: position and bounding
    moves,            \* the calls of move_by and move_to made on it so far
    queue,            \* the world's events sent and not yet dispatched
    todo,             \* the handlers of the event in dispatch still to run
    running,          \* the handlers running now
    handled,          \* history: the events dispatched so far, by kind
    keep_alive,       \* one player's KeepAlive component
    login,            \* that player's LoginState
    pings,            \* the pings sent to that player and not answered yet
    seconds,          \* the time in seconds read by the keep-alive stage
    inventories,      \* each player's PlayerInventory: items and carried item
    packets,          \* each player's Packets: packets appended, not yet sent
    sender,           \* the events the last handler queued on its Sender
    served,           \* history: the last event an inventory handler received
    landed            \* history: the tick of the last hurt call that changed
                      \* the entity's vitals

vitalsVars == <<vitals, immune, global, call>>
gameVars ==
    <<last_ticks, last_ms_per_tick, tick_on, calls, SHUTDOWN, clock, pc, wait, sent>>
\* what the game loop leaves alone, and what the vitals machine leaves alone
worldVars == <<entities, lookup, rebuilt>>
poseVars == <<pose, moves>>
dispatchVars == <<queue, todo, running, handled>>
keepAliveVars == <<keep_alive, login, pings, seconds>>
inventoryVars == <<inventories, packets, sender, served>>
windowVars == <<landed>>
notGameVars ==
    <<vitalsVars, worldVars, poseVars, dispatchVars, keepAliveVars, inventoryVars,
     windowVars>>
notVitalsVars ==
    <<gameVars, worldVars, poseVars, dispatchVars, keepAliveVars, inventoryVars,
     windowVars>>
notWorldVars ==
    <<vitalsVars, gameVars, poseVars, dispatchVars, keepAliveVars, inventoryVars,
     windowVars>>
notPoseVars ==
    <<vitalsVars, gameVars, worldVars, dispatchVars, keepAliveVars, inventoryVars,
     windowVars>>
notDispatchVars ==
    <<vitalsVars, gameVars, worldVars, poseVars, keepAliveVars, inventoryVars,
     windowVars>>
notKeepAliveVars ==
    <<vitalsVars, gameVars, worldVars, poseVars, dispatchVars, inventoryVars,
     windowVars>>
notInventoryVars ==
    <<vitalsVars, gameVars, worldVars, poseVars, dispatchVars, keepAliveVars,
     windowVars>>
\* what a hurt call changing vitals and landed leaves alone
notHitVars ==
    <<gameVars, worldVars, poseVars, dispatchVars, keepAliveVars, inventoryVars>>
vars ==
    <<vitalsVars, gameVars, worldVars, poseVars, dispatchVars, keepAliveVars,
      inventoryVars, windowVars>>

---------------------------------------------------------------------------
(* Bounds of the model *)

\* largest amount passed to heal or hurt
MaxAmount == 7
\* last value of global.tick the model explores
MaxTick == 3
\* largest configured max_hurt_resistant_time
MaxResist == 3
\* largest absorption.bonus_health an entity starts with
MaxBonus == 2
\* largest absorption.end_tick an entity starts with
MaxAbsEnd == 2
\* where invulnerability windows are explored: the last value of
\* global.tick, the largest max_hurt_resistant_time, the largest small hit
MaxHitTick == 5
MaxHitResist == 5
MaxHit == 1
\* the slots of a player's inventory
MaxSlots == 2
\* the most packets the players' buffers hold before the egress stage runs
MaxPackets == 2

---------------------------------------------------------------------------
(* Program constants *)

\* health.min(20.0) in heal, health: 20.0 in Vitals::ALIVE
MAX_HEALTH == 20
\* respawn_tick: tick + 100
RESPAWN_DELAY == 100

---------------------------------------------------------------------------
(* Arithmetic helpers *)

Min(a, b) == IF a < b THEN a ELSE b
Max(a, b) == IF a > b THEN a ELSE b

\* Rust's integer division: truncates toward zero
DivTrunc(a, b) ==
    IF (a >= 0) = (b > 0) THEN (IF a >= 0 THEN a ELSE -a) \div (IF b > 0 THEN b ELSE -b)
    ELSE -((IF a >= 0 THEN a ELSE -a) \div (IF b > 0 THEN b ELSE -b))

---------------------------------------------------------------------------
(* components.rs: Vitals, ImmuneStatus *)

Alive(health, absorption, regeneration) ==
    [state |-> "Alive", health |-> health, absorption |-> absorption,
     regeneration |-> regeneration]

Dead(respawn_tick) == [state |-> "Dead", respawn_tick |-> respawn_tick]

\* Vitals::ALIVE with the absorption and regeneration effects given
ALIVE(absorption, regeneration) == Alive(MAX_HEALTH, absorption, regeneration)

\* ImmuneStatus::is_invincible
is_invincible(self, g) == g.tick < self.until

\* Vitals::heal, for amount finite and > 0 (the asserts)
\* variant: the `health.min(20.0)` line left out
MutHealNoClamp(self, amount) ==
    IF self.state # "Alive" THEN self
    ELSE [self EXCEPT !.health = self.health + amount]
\* variant: `health.max(20.0)` for `health.min(20.0)`
MutHealMaxForMin(self, amount) ==
    IF self.state # "Alive" THEN self
    ELSE [self EXCEPT !.health = Max(self.health + amount, MAX_HEALTH)]
heal(self, amount) ==
    IF self.state # "Alive" THEN self
    ELSE [self EXCEPT !.health = Min(self.health + amount, MAX_HEALTH)]

\* hurt: `if tick < immune.until { return; }`
\* variant: the window closes one tick early
MutHurtBlockedOffByOne(tick, imm) == tick + 1 < imm.until
hurt_blocked(tick, imm) == tick < imm.until

\* hurt: `immune.until = tick + i64::from(max_hurt_resistant_time) / 2`
\* variant: the `/ 2` left out
MutHurtUntilNoHalving(tick, g) == tick + g.max_hurt_resistant_time
\* variant: `/ 4` for `/ 2`
MutHurtUntilQuartered(tick, g) == tick + DivTrunc(g.max_hurt_resistant_time, 4)
hurt_until(tick, g) == tick + DivTrunc(g.max_hurt_resistant_time, 2)

\* hurt: `let Self::Alive { .. } = self else { return; }` on a Dead entity
\* variant: a hit on a corpse restarts the respawn timer
MutHurtDeadRestartsRespawn(self, tick) == Dead(tick + RESPAWN_DELAY)
hurt_dead(self, tick) == self

\* hurt: the absorption block. Returns the absorption after it, the amount
\* left for health, and whether the function returns there.
\* variant: the `tick < absorption.end_tick` test left out
MutAbsorbIgnoresExpiry(tick, absorption, amount) ==
    IF amount > absorption.bonus_health
    THEN [absorption |-> [absorption EXCEPT !.bonus_health = 0],
          amount |-> amount - absorption.bonus_health,
          return |-> FALSE]
    ELSE [absorption |-> [absorption EXCEPT
                             !.bonus_health = absorption.bonus_health - amount],
          amount |-> amount,
          return |-> TRUE]
\* variant: the `amount > absorption.bonus_health` test left out
MutAbsorbAlwaysSubtracts(tick, absorption, amount) ==
    IF tick < absorption.end_tick
    THEN [absorption |-> [absorption EXCEPT
                             !.bonus_health = absorption.bonus_health - amount],
          amount |-> amount,
          return |-> TRUE]
    ELSE [absorption |-> absorption, amount |-> amount, return |-> FALSE]
hurt_absorb(tick, absorption, amount) ==
    IF tick < absorption.end_tick
    THEN IF amount > absorption.bonus_health
         THEN [absorption |-> [absorption EXCEPT !.bonus_health = 0],
               amount |-> amount - absorption.bonus_health,
               return |-> FALSE]
         ELSE [absorption |-> [absorption EXCEPT
                                  !.bonus_health = absorption.bonus_health - amount],
               amount |-> amount,
               return |-> TRUE]
    ELSE [absorption |-> absorption, amount |-> amount, return |-> FALSE]

\* hurt: `*health -= amount; if *health <= 0.0 { *self = Dead {..} }`
\* variant: `*health < 0.0` for `*health <= 0.0`
MutHurtHealthStrict(self, tick, amount) ==
    LET health == self.health - amount
    IN  IF health < 0 THEN Dead(tick + RESPAWN_DELAY)
        ELSE [self EXCEPT !.health = health]
hurt_health(self, tick, amount) ==
    LET health == self.health - amount
    IN  IF health <= 0 THEN Dead(tick + RESPAWN_DELAY)
        ELSE [self EXCEPT !.health = health]

\* Vitals::hurt, for amount finite and >= 0 (the debug asserts).
\* Returns the vitals and the immune status after the call.
hurt(self, g, amount, imm) ==
    LET tick == g.tick IN
    IF hurt_blocked(tick, imm) THEN [vitals |-> self, immune |-> imm]
    ELSE
      LET imm1 == [imm EXCEPT !.until = hurt_until(tick, g)] IN
      IF self.state # "Alive" THEN [vitals |-> hurt_dead(self, tick), immune |-> imm1]
      ELSE
        LET a == hurt_absorb(tick, self.absorption, amount)
            self1 == [self EXCEPT !.absorption = a.absorption]
        IN  IF a.return THEN [vitals |-> self1, immune |-> imm1]
            ELSE [vitals |-> hurt_health(self1, tick, a.amount), immune |-> imm1]

---------------------------------------------------------------------------
(* lib.rs: Game, the game loop and its pacer *)

\* nanoseconds per millisecond (Duration::as_millis, as_nanos() / 1_000_000.0)
NANOS_PER_MILLI == 1000000
\* `count as f64 / 20.0`: ticks per second
TPS == 20
\* `duration.as_millis() > 47`, `Duration::from_millis(47)`
SLEEP_CAP_MILLIS == 47
\* tick: const LAST_TICK_HISTORY_SIZE
LAST_TICK_HISTORY_SIZE == 100
\* const MSPT_HISTORY_SIZE
MSPT_HISTORY_SIZE == 100

\* no heal or hurt call was made yet
\* an entity id that is not alive
NoEntity == [tag |-> "NoEntity"]

NoCall == [op |-> "none"]

None == [tag |-> "None"]
Some(d) == [tag |-> "Some", d |-> d]

(* std::time: an Instant (as the time since the clock's origin) and a       *)
(* Duration are whole seconds plus nanoseconds below one second, as in     *)
(* Rust; every intermediate value stays below 2^31.                        *)
NANOS_PER_SEC == 1000 * NANOS_PER_MILLI

\* Duration::new(secs, nanos): carries whole seconds out of nanos
Duration(secs, nanos) ==
    [secs |-> secs + nanos \div NANOS_PER_SEC, nanos |-> nanos % NANOS_PER_SEC]

ZERO == Duration(0, 0)

\* Instant + Duration, Duration + Duration
add(a, b) == Duration(a.secs + b.secs, a.nanos + b.nanos)

\* a < b on Instants or Durations
lt(a, b) == a.secs < b.secs \/ (a.secs = b.secs /\ a.nanos < b.nanos)
le(a, b) == ~lt(b, a)

\* Instant - Instant for a >= b
sub(a, b) ==
    IF a.nanos >= b.nanos
    THEN [secs |-> a.secs - b.secs, nanos |-> a.nanos - b.nanos]
    ELSE [secs |-> a.secs - b.secs - 1, nanos |-> a.nanos + NANOS_PER_SEC - b.nanos]

\* Duration::as_millis: whole milliseconds, truncated
as_millis(d) == d.secs * 1000 + d.nanos \div NANOS_PER_MILLI

\* Duration::as_nanos
as_nanos(d) == d.secs * NANOS_PER_SEC + d.nanos

\* Duration::from_millis
from_millis(ms) == Duration(ms \div 1000, (ms % 1000) * NANOS_PER_MILLI)

\* Duration::from_secs_f64(count as f64 / 20.0): the float quotient is within
\* 1e-15 s of count/20 s and the conversion rounds to the nearest nanosecond,
\* so the result is count * 50 ms exactly
from_secs_count(count) ==
    [secs |-> count \div TPS, nanos |-> (count % TPS) * (NANOS_PER_SEC \div TPS)]

\* Duration::mul_f64(0.8) = from_secs_f64(0.8 * as_secs_f64()), which rounds
\* to the nearest nanosecond: 4/5 of the seconds, plus 4/5 of the nanoseconds
\* rounded (a multiple of 1/5 ns is never half-way between two integers)
mul_f64_0_8(d) ==
    Duration((4 * d.secs) \div 5,
             ((4 * d.secs) % 5) * (NANOS_PER_SEC \div 5)
               + 4 * (d.nanos \div 5) + (4 * (d.nanos % 5) + 2) \div 5)

\* wait_duration: `first_tick + Duration::from_secs_f64(count as f64 / 20.0)`
time_for_20_tps(ticks) == add(Head(ticks), from_secs_count(Len(ticks)))

\* wait_duration: `if duration.as_millis() > 47 { return Some(from_millis(47)) }
\* Some(duration)`
\* variant: `<` for `>` in the cap's test
MutCapReversed(duration) ==
    IF as_millis(duration) < SLEEP_CAP_MILLIS
    THEN Some(from_millis(SLEEP_CAP_MILLIS))
    ELSE Some(duration)
cap_sleep(duration) ==
    IF as_millis(duration) > SLEEP_CAP_MILLIS
    THEN Some(from_millis(SLEEP_CAP_MILLIS))
    ELSE Some(duration)

\* Game::wait_duration with Instant::now() = now
wait_duration(ticks, now) ==
    IF Len(ticks) = 0 THEN None
    ELSE IF lt(time_for_20_tps(ticks), now) THEN None
    ELSE cap_sleep(mul_f64_0_8(sub(time_for_20_tps(ticks), now)))

RECURSIVE Sum(_)
Sum(s) == IF Len(s) = 0 THEN 0 ELSE Head(s) + Sum(Tail(s))

Reverse(s) == [i \in 1..Len(s) |-> s[Len(s) + 1 - i]]

\* ndarray mean of arr.slice(s![..n]): the exact fraction sum/count over
\* samples kept in nanoseconds
mean(arr, n) == [sum |-> Sum(SubSeq(arr, 1, n)), count |-> n]

\* the samples left in the deque's order, oldest first (no `.rev()`)
MutArrOldestFirst(pushed) == pushed

\* update_tick_stats: `Array::from_iter(self.last_ms_per_tick.iter().copied().rev())`
stats_arr(pushed) == Reverse(pushed)

\* Game::update_tick_stats: the new duration history and the StatsEvents sent
update_tick_stats(history, ms) ==
    LET pushed == Append(history, ms)
        arr == stats_arr(pushed)
    IN  IF Len(pushed) > MSPT_HISTORY_SIZE
        THEN [history |-> Tail(pushed),
              events |-> << [event |-> "StatsEvent",
                             ms_per_tick_mean_1s |-> mean(arr, 20),
                             ms_per_tick_mean_5s |-> mean(arr, 100)] >>]
        ELSE [history |-> pushed, events |-> << >>]

\* the counter moved by two
MutCountTwice(n) == n + 2

\* update_tick_stats: `self.tick_on += 1`
count_tick(n) == n + 1

\* the handlers added in the order of the spec's tick pipeline, the rebuild
\* between the move logic and the collision detection
MutHandlersRebuildBeforeCollisions ==
    << "ingress", "init_player", "player_join_world", "player_kick",
       "init_entity", "entity_move_logic", "rebuild_player_location",
       "entity_detect_collisions", "sync_entity_position",
       "reset_bounding_boxes", "update_time", "update_health", "sync_players",
       "player_detect_mob_hits", "pkt_attack", "pkt_hand_swing",
       "generate_egress_packets", "egress", "keep_alive", "stats_message",
       "kill_all" >>

\* Game::init: the handlers in the order of their `world.add_handler` calls
HANDLERS ==
    << "ingress", "init_player", "player_join_world", "player_kick",
       "init_entity", "entity_move_logic", "entity_detect_collisions",
       "sync_entity_position", "reset_bounding_boxes", "update_time",
       "update_health", "sync_players", "rebuild_player_location",
       "player_detect_mob_hits", "pkt_attack", "pkt_hand_swing",
       "generate_egress_packets", "egress", "keep_alive", "stats_message",
       "kill_all" >>

\* the event each handler receives: rebuild_player_location takes
\* Receiver<Gametick>; the movement and collision stages run once per tick
\* (the other handlers' receivers play no part here)
RECEIVES ==
    [h \in {HANDLERS[i] : i \in 1..Len(HANDLERS)} |->
        CASE h \in {"entity_move_logic", "entity_detect_collisions",
                    "rebuild_player_location"} -> "Gametick"
          [] h = "egress" -> "Egress"
          [] h = "stats_message" -> "StatsEvent"
          [] OTHER -> "other"]

RECURSIVE SelectSeq2(_, _)
\* the handlers of `hs` that receive `event`, in order
SelectSeq2(hs, event) ==
    IF Len(hs) = 0 THEN << >>
    ELSE (IF RECEIVES[Head(hs)] = event THEN <<Head(hs)>> ELSE << >>)
            \o SelectSeq2(Tail(hs), event)

\* World::send(event): the event's handlers run one after another in the
\* order they were added
send(event) == [event |-> event, handlers |-> SelectSeq2(HANDLERS, event)]

\* Game::tick up to `self.last_ticks.push_back(now)`
push_tick(ticks, now) ==
    Append(IF Len(ticks) > LAST_TICK_HISTORY_SIZE THEN Tail(ticks) ELSE ticks, now)

---------------------------------------------------------------------------
(* Bounds of the game loop model *)

\* ticks the game loop runs
MaxTicks == 2
\* a tick's work takes up to this many work steps
MaxWork == 6
\* and up to this many nanoseconds less or more than whole work steps
MaxFine == 1
\* the long run: ticks followed, the spacing of the ticks whose work may be
\* long, and that long work in milliseconds
LongTicks == 103
JitterEvery == 40
LongTickMillis == 20
\* the entity ids of the world, and the last of the boxes 0..MaxBox a pose
\* can have
MaxEntities == 2
MaxBox == 1
\* the calls of move_by and move_to followed on one pose
MaxMoves == 3
\* the events of one kind the driver sends to the world
MaxSends == 2
\* the seconds between two readings of the time, and the last reading
TimeStep == 5
MaxNow == 60
\* the ticks followed in the runs against the signal thread
ShutdownTicks == 3

\* one work step: 20 ms
WorkStep == 20 * NANOS_PER_MILLI

\* how long the stages of one tick can take
WorkDurations ==
    {Duration(0, k * WorkStep + j) : k \in 1..MaxWork, j \in (-MaxFine)..MaxFine}
        \cup {Duration(0, j) : j \in 0..MaxFine}

---------------------------------------------------------------------------
(* FullEntityPose (components.rs).  Its coordinates are f32: an f32 is kept *)
(* as an integer count of a power-of-two unit, 2^-25 along x and z and     *)
(* 2^-23 along y, and every sum is rounded as f32 rounds it.               *)

\* the significand of an f32 has 24 bits
F32_SIGNIFICAND == 24

Abs(n) == IF n < 0 THEN -n ELSE n

RECURSIVE ExtraBits(_)
\* the low bits of m that do not fit the significand
ExtraBits(m) == IF m < 2 ^ F32_SIGNIFICAND THEN 0 ELSE 1 + ExtraBits(m \div 2)

\* the f32 nearest to the exact value n, ties to even
round_f32(n) ==
    LET m == Abs(n)
        p == 2 ^ ExtraBits(m)
        q == m \div p
        r == m % p
        up == 2 * r > p \/ (2 * r = p /\ q % 2 = 1)
        rounded == (IF up THEN q + 1 ELSE q) * p
    IN  IF n < 0 THEN -rounded ELSE rounded

\* 1.0 along x and z, and along y
ONE_XZ == 33554432
ONE_Y == 8388608

\* the literals of FullEntityPose::player as f32: 0.6 and 1.8, and y = 70.0
WIDTH == 20132660
HEIGHT == 15099494
SPAWN_Y == 70 * ONE_Y

Vec3(x, y, z) == [x |-> x, y |-> y, z |-> z]

\* glam Vec3 + Vec3
vec_add(a, b) ==
    Vec3(round_f32(a.x + b.x), round_f32(a.y + b.y), round_f32(a.z + b.z))

\* Aabb::create(feet, width, height): the box of that width and height
\* standing on feet, centred on it along x and z
create(feet, width, height) ==
    LET half_width == width \div 2
    IN  [min |-> Vec3(round_f32(feet.x - half_width), feet.y,
                      round_f32(feet.z - half_width)),
         max |-> Vec3(round_f32(feet.x + half_width), round_f32(feet.y + height),
                      round_f32(feet.z + half_width))]

\* Aabb::move_by(offset): the box translated by offset
aabb_move_by(box, offset) ==
    [min |-> vec_add(box.min, offset), max |-> vec_add(box.max, offset)]

\* Aabb::move_to(feet): the box of the same entity standing on feet
aabb_move_to(box, feet) == create(feet, WIDTH, HEIGHT)

\* FullEntityPose::player
player ==
    LET position == Vec3(0, SPAWN_Y, 0)
    IN  [position |-> position, bounding |-> create(position, WIDTH, HEIGHT)]

\* FullEntityPose::move_by
move_by(self, vec) ==
    [position |-> vec_add(self.position, vec),
     bounding |-> aabb_move_by(self.bounding, vec)]

\* FullEntityPose::move_to
move_to(self, pos) ==
    [position |-> pos, bounding |-> aabb_move_to(self.bounding, pos)]

\* the vectors passed to move_by: one block along an axis, either way
Vectors ==
    {Vec3(d * ONE_XZ, 0, 0) : d \in {-1, 1}}
        \cup {Vec3(0, d * ONE_Y, 0) : d \in {-1, 1}}
        \cup {Vec3(0, 0, d * ONE_XZ) : d \in {-1, 1}}

\* the positions passed to move_to
Targets == {Vec3(x * ONE_XZ, SPAWN_Y, 0) : x \in {0, 2}}

\* some handler calls pose.move_by(vec)
MoveBy ==
    /\ moves < MaxMoves
    /\ \E vec \in Vectors : pose' = move_by(pose, vec)
    /\ moves' = moves + 1
    /\ UNCHANGED notPoseVars

\* some handler calls pose.move_to(pos)
MoveTo ==
    /\ moves < MaxMoves
    /\ \E pos \in Targets : pose' = move_to(pose, pos)
    /\ moves' = moves + 1
    /\ UNCHANGED notPoseVars

NextPose == MoveBy \/ MoveTo

---------------------------------------------------------------------------
(* The world's entities and the player index                               *)
(* (system/rebuild_player_location.rs)                                     *)

\* LoginState, the two of its values the model tells apart
LoginStates == {"Login", "Play"}

\* the boxes a FullEntityPose::bounding can be
Boxes == 0..MaxBox

\* the component sets an entity can have: the Player marker with a
\* LoginState or neither, a FullEntityPose or none
Components ==
    [player : {TRUE}, login : LoginStates, pose : {None} \cup {Some(b) : b \in Boxes}]
        \cup [player : {FALSE}, login : {"none"}, pose : {None} \cup {Some(b) : b \in Boxes}]

\* the query with every entity that has a pose, Player or not
MutQueryEveryPose(es) ==
    {id \in DOMAIN es : es[id] # NoEntity /\ es[id].pose # None}

\* rebuild_player_location::EntityQuery: the entities matching
\* `pose: &FullEntityPose, _player: With<&Player>`
EntityQuery(es) ==
    {id \in DOMAIN es : es[id] # NoEntity /\ es[id].pose # None /\ es[id].player}

\* Bvh::build(elements): the items the tree stores
build(elements) == elements

\* rebuild_player_location: the handler's effect on PlayerBoundingBoxes
rebuild(es) ==
    build({[id |-> id, aabb |-> es[id].pose.d] : id \in EntityQuery(es)})

\* a handler spawns an entity and inserts its components
Spawn ==
    /\ \E id \in DOMAIN entities, c \in Components :
          /\ entities[id] = NoEntity
          /\ entities' = [entities EXCEPT ![id] = c]
    /\ rebuilt' = FALSE
    /\ UNCHANGED lookup
    /\ UNCHANGED notWorldVars

\* a handler despawns an entity
Despawn ==
    /\ \E id \in DOMAIN entities :
          /\ entities[id] # NoEntity
          /\ entities' = [entities EXCEPT ![id] = NoEntity]
    /\ rebuilt' = FALSE
    /\ UNCHANGED lookup
    /\ UNCHANGED notWorldVars

\* a handler moves an entity: FullEntityPose::move_to gives it another box
MovePose ==
    /\ \E id \in DOMAIN entities, b \in Boxes :
          /\ entities[id] # NoEntity
          /\ entities[id].pose # None
          /\ entities[id].pose # Some(b)
          /\ entities' = [entities EXCEPT ![id].pose = Some(b)]
    /\ rebuilt' = FALSE
    /\ UNCHANGED lookup
    /\ UNCHANGED notWorldVars

\* a handler advances a player's LoginState
SetLogin ==
    /\ \E id \in DOMAIN entities, l \in LoginStates :
          /\ entities[id] # NoEntity
          /\ entities[id].player
          /\ entities[id].login # l
          /\ entities' = [entities EXCEPT ![id].login = l]
    /\ rebuilt' = FALSE
    /\ UNCHANGED lookup
    /\ UNCHANGED notWorldVars

\* the handler rebuild_player_location runs
rebuild_player_location ==
    /\ lookup' = rebuild(entities)
    /\ rebuilt' = TRUE
    /\ UNCHANGED entities
    /\ UNCHANGED notWorldVars

NextWorld == Spawn \/ Despawn \/ MovePose \/ SetLogin \/ rebuild_player_location

---------------------------------------------------------------------------
(* The handlers whose declarations are in system/rebuild_player_location.rs *)
(* and system/inventory_systems.rs, their access to the world's record     *)
(* kinds, and the dispatch of events to them.                              *)

Read(kind) == [kind |-> kind, mode |-> "read"]
Write(kind) == [kind |-> kind, mode |-> "write"]

\* rebuild_player_location with a second parameter reading the index it writes
MutRebuildReadsTheIndex ==
    << Write("PlayerBoundingBoxes"), Read("PlayerBoundingBoxes"),
       Read("FullEntityPose") >>

\* rebuild_player_location: Single<&mut PlayerBoundingBoxes> and
\* Fetcher<EntityQuery> (`pose: &FullEntityPose`; With<&Player> accesses
\* nothing)
RebuildAccess == << Write("PlayerBoundingBoxes"), Read("FullEntityPose") >>

\* get_inventory_actions: Receiver<ClickEvent, InventoryActionQuery>
InventoryActionQuery == << Write("PlayerInventory"), Write("Packets") >>

\* give_command: Fetcher<InventoryQuery>
InventoryQuery ==
    << Read("InGameName"), Write("PlayerInventory"), Write("Packets") >>

\* the params of each handler
ACCESS ==
    [rebuild_player_location |-> RebuildAccess,
     get_inventory_actions |-> InventoryActionQuery,
     give_command |-> InventoryQuery]

\* the events these handlers receive and send
EVENTS == {"Gametick", "ClickEvent", "Command", "UpdateEquipment"}

\* the handlers receiving each event, in the order they were added
RECEIVERS ==
    [e \in EVENTS |->
        CASE e = "Gametick" -> <<"rebuild_player_location">>
          [] e = "ClickEvent" -> <<"get_inventory_actions">>
          [] e = "Command" -> <<"give_command">>
          [] OTHER -> << >>]

\* nothing is in dispatch
Idle == queue = << >> /\ todo = << >> /\ running = {}

\* the driver calls world.send(event), which takes the world exclusively
WorldSend ==
    /\ Idle
    /\ \E e \in EVENTS \ {"UpdateEquipment"} :
          /\ handled[e] < MaxSends
          /\ queue' = <<e>>
    /\ UNCHANGED <<todo, running, handled>>
    /\ UNCHANGED notDispatchVars

\* World::send takes the next event of its queue
NextEvent ==
    /\ running = {}
    /\ todo = << >>
    /\ queue # << >>
    /\ todo' = RECEIVERS[Head(queue)]
    /\ queue' = Tail(queue)
    /\ handled' = [handled EXCEPT ![Head(queue)] = @ + 1]
    /\ UNCHANGED running
    /\ UNCHANGED notDispatchVars

\* World::send calls the next handler of the event, the one before it
\* having returned
StartHandler ==
    /\ running = {}
    /\ todo # << >>
    /\ running' = {Head(todo)}
    /\ todo' = Tail(todo)
    /\ UNCHANGED <<queue, handled>>
    /\ UNCHANGED notDispatchVars

\* the running handler returns; get_inventory_actions may have called
\* `sender.send(UpdateEquipment {..})`
FinishHandler ==
    /\ running # {}
    /\ running' = {}
    /\ \/ UNCHANGED queue
       \/ /\ "get_inventory_actions" \in running
          /\ queue' = Append(queue, "UpdateEquipment")
    /\ UNCHANGED <<todo, handled>>
    /\ UNCHANGED notDispatchVars

NextDispatch == WorldSend \/ NextEvent \/ StartHandler \/ FinishHandler

---------------------------------------------------------------------------
(* Keep-alive: the KeepAlive component (components.rs) and the keep-alive  *)
(* stage acting on it, for one player.                                     *)

\* the seconds after which a new ping is due, and after which an
\* unanswered one ends the connection
PING_INTERVAL == 15
PING_TIMEOUT == 30

\* the keep-alive stage for one player in Play: the component, the login
\* state and the pings sent
keep_alive_stage(ka, state, t) ==
    IF ka.last_sent = None
    THEN [ka |-> [ka EXCEPT !.last_sent = Some(t)], login |-> state, sent |-> 1]
    ELSE IF t - ka.last_sent.d >= PING_INTERVAL /\ ~ka.unresponded
    THEN [ka |-> [last_sent |-> Some(t), unresponded |-> TRUE],
          login |-> state, sent |-> 1]
    ELSE IF ka.unresponded /\ t - ka.last_sent.d >= PING_TIMEOUT
    THEN [ka |-> ka, login |-> "Terminate", sent |-> 0]
    ELSE [ka |-> ka, login |-> state, sent |-> 0]

\* the keep-alive stage runs
KeepAliveStage ==
    /\ login = "Play"
    /\ LET r == keep_alive_stage(keep_alive, login, seconds)
       IN  /\ keep_alive' = r.ka
           /\ login' = r.login
           /\ pings' = pings + r.sent
    /\ UNCHANGED seconds
    /\ UNCHANGED notKeepAliveVars

\* the client's answer to one ping arrives
Pong ==
    /\ login = "Play"
    /\ pings > 0
    /\ pings' = pings - 1
    /\ keep_alive' = [keep_alive EXCEPT !.unresponded = FALSE]
    /\ UNCHANGED <<login, seconds>>
    /\ UNCHANGED notKeepAliveVars

\* time passes
Elapse ==
    /\ seconds + TimeStep <= MaxNow
    /\ seconds' = seconds + TimeStep
    /\ UNCHANGED <<keep_alive, login, pings>>
    /\ UNCHANGED notKeepAliveVars

NextKeepAlive == KeepAliveStage \/ Pong \/ Elapse

---------------------------------------------------------------------------
(* system/inventory_systems.rs: get_inventory_actions and give_command,    *)
(* acting on the PlayerInventory and the Packets of the players.           *)

\* the players of the world, by entity id: the one a handler call is for,
\* and another
PLAYERS == {1, 2}

\* each player's InGameName, as its characters
InGameName == [p \in PLAYERS |-> IF p = 1 THEN <<"a">> ELSE <<"b", "o">>]

\* the packets in the buffers of all the players
RECURSIVE pending(_, _)
pending(bufs, ps) ==
    IF ps = {} THEN 0
    ELSE LET p == CHOOSE q \in ps : TRUE
         IN  Len(bufs[p]) + pending(bufs, ps \ {p})

\* ItemStack::new(item, count, None), and ItemStack::EMPTY
ItemStack(item, count) == [item |-> item, count |-> count]
EMPTY == ItemStack("Air", 0)

\* a PlayerInventory with nothing in it
NoItems ==
    [items |-> [i \in 1..MaxSlots |-> EMPTY], carried_item |-> EMPTY]

\* play::InventoryS2c of send_inventory_update
InventoryS2c(slots, carried_item) ==
    [packet |-> "InventoryS2c", window_id |-> 0, state_id |-> 0,
     slots |-> slots, carried_item |-> carried_item]

\* Packets::append: the packet is added at the end of the buffer
append(packet, pkt) == Append(packet, pkt)

\* variant: the update shows an inventory with nothing carried
MutUpdateDropsCarried(inventory, packet) ==
    append(packet, InventoryS2c(inventory.items, EMPTY))
\* send_inventory_update
send_inventory_update(inventory, packet) ==
    append(packet, InventoryS2c(inventory.items, inventory.carried_item))

\* what the slot changes and the carried item of a click make of an
\* inventory
with_slot_changes(inventory, slot_changes, carried_item) ==
    [items |->
        [i \in 1..MaxSlots |->
            IF \E c \in 1..Len(slot_changes) : slot_changes[c].idx = i
            THEN slot_changes[CHOOSE c \in 1..Len(slot_changes) :
                                /\ slot_changes[c].idx = i
                                /\ \A d \in (c + 1)..Len(slot_changes) :
                                      slot_changes[d].idx # i].stack
            ELSE inventory.items[i]],
     carried_item |-> carried_item]

\* PlayerInventory::append_slot_changes: what it may return and what it may
\* leave of the inventory. It accepts the click or refuses it; refusing, it
\* may have changed the inventory already.
append_slot_changes(inventory, slot_changes, carried_item) ==
    LET changed == with_slot_changes(inventory, slot_changes, carried_item)
    IN  {[ok |-> TRUE, update_equipment |-> u, inventory |-> changed] :
            u \in BOOLEAN}
        \cup {[ok |-> FALSE, update_equipment |-> u, inventory |-> i] :
                u \in {FALSE}, i \in {inventory, changed}}

\* variant: a refused click is not answered
MutNoAnswerOnErr(query, event, result) ==
    [inventory |-> result.inventory,
     packet |-> IF result.ok
                THEN send_inventory_update(result.inventory, query.packet)
                ELSE query.packet,
     sender |-> IF result.ok /\ result.update_equipment
                THEN <<[event |-> "UpdateEquipment", id |-> event.by]>>
                ELSE << >>]
\* variant: every accepted click sends UpdateEquipment
MutEquipmentOnEveryOk(query, event, result) ==
    [inventory |-> result.inventory,
     packet |-> send_inventory_update(result.inventory, query.packet),
     sender |-> IF result.ok
                THEN <<[event |-> "UpdateEquipment", id |-> event.by]>>
                ELSE << >>]
\* get_inventory_actions for one ClickEvent: query holds the inventory and
\* the packets of the player the event is for, result is what
\* append_slot_changes returned
get_inventory_actions(query, event, result) ==
    [inventory |-> result.inventory,
     packet |-> send_inventory_update(result.inventory, query.packet),
     sender |-> IF result.ok /\ result.update_equipment
                THEN <<[event |-> "UpdateEquipment", id |-> event.by]>>
                ELSE << >>]

\* the item stacks and the slot changes of the clicks explored
Stacks == {EMPTY, ItemStack("Stone", 1)}
SlotChanges ==
    {<< >>} \cup {<<[idx |-> i, stack |-> s]>> : i \in 1..MaxSlots, s \in Stacks}

\* a ClickEvent for a player is dispatched to get_inventory_actions
Click ==
    \E by \in PLAYERS, carried_item \in Stacks, slot_changes \in SlotChanges :
      \E result \in append_slot_changes(inventories[by], slot_changes,
                                        carried_item) :
        LET event == [by |-> by, carried_item |-> carried_item,
                      slot_changes |-> slot_changes]
            r == get_inventory_actions(
                    [inventory |-> inventories[by], packet |-> packets[by]],
                    event, result)
        IN  /\ pending(packets, PLAYERS) < MaxPackets
            /\ inventories' = [inventories EXCEPT ![by] = r.inventory]
            /\ packets' = [packets EXCEPT ![by] = r.packet]
            /\ sender' = r.sender
            /\ served' = [event |-> "ClickEvent", by |-> by, ok |-> result.ok,
                          update_equipment |-> result.update_equipment]
            /\ UNCHANGED notInventoryVars

\* str::starts_with
starts_with(s, prefix) ==
    /\ Len(s) >= Len(prefix)
    /\ SubSeq(s, 1, Len(prefix)) = prefix

\* char::is_whitespace, for the characters of the commands explored
is_whitespace(c) == c \in {" ", "\t"}

\* str::split_whitespace, collected: the maximal runs of characters that
\* are not whitespace
RECURSIVE split_run(_, _, _)
split_run(s, word, words) ==
    IF s = << >>
    THEN IF word = << >> THEN words ELSE Append(words, word)
    ELSE IF is_whitespace(Head(s))
    THEN split_run(Tail(s), << >>,
                   IF word = << >> THEN words ELSE Append(words, word))
    ELSE split_run(Tail(s), Append(word, Head(s)), words)
split_whitespace(s) == split_run(s, << >>, << >>)

\* u8::to_ascii_lowercase, for the characters of the commands explored
to_ascii_lowercase(c) ==
    CASE c = "G" -> "g"
      [] c = "I" -> "i"
      [] c = "V" -> "v"
      [] c = "E" -> "e"
      [] OTHER -> c

\* str::eq_ignore_ascii_case
eq_ignore_ascii_case(a, b) ==
    /\ Len(a) = Len(b)
    /\ \A i \in 1..Len(a) : to_ascii_lowercase(a[i]) = to_ascii_lowercase(b[i])

\* the literal "give"
GIVE == <<"g", "i", "v", "e">>

\* ItemKind::from_str: the kind of that name, or None
ItemKind_from_str(s) ==
    IF s = <<"s", "t", "o", "n", "e">> THEN Some("Stone")
    ELSE IF s = <<"d", "i", "r", "t">> THEN Some("Dirt")
    ELSE None

\* the value of a decimal digit, or -1
digit(c) ==
    CASE c = "0" -> 0 [] c = "1" -> 1 [] c = "2" -> 2 [] c = "3" -> 3
      [] c = "4" -> 4 [] c = "5" -> 5 [] c = "6" -> 6 [] c = "7" -> 7
      [] c = "8" -> 8 [] c = "9" -> 9 [] OTHER -> -1

\* the i8 range of ItemStack's count
I8_MIN == -128
I8_MAX == 127

\* str::parse::<i8>: an optional sign and decimal digits, of a value that
\* fits an i8; or None
RECURSIVE parse_digits(_, _)
parse_digits(s, acc) ==
    IF s = << >> THEN acc
    ELSE IF digit(Head(s)) < 0 \/ acc > I8_MAX + 1 THEN -1
    ELSE parse_digits(Tail(s), 10 * acc + digit(Head(s)))
parse(s) ==
    LET signed == s # << >> /\ Head(s) \in {"+", "-"}
        digits == IF signed THEN Tail(s) ELSE s
        n == IF digits = << >> THEN -1 ELSE parse_digits(digits, 0)
        v == IF signed /\ Head(s) = "-" THEN -n ELSE n
    IN  IF n < 0 \/ v < I8_MIN \/ v > I8_MAX THEN None ELSE Some(v)

\* Option::unwrap_or
unwrap_or(option, default) == IF option = None THEN default ELSE option.d

\* PlayerInventory::set_first_available: the item goes to the first slot
\* holding nothing, if there is one
set_first_available(inventory, item) ==
    IF \E i \in 1..MaxSlots : inventory.items[i] = EMPTY
    THEN [inventory EXCEPT
            !.items[CHOOSE i \in 1..MaxSlots :
                        /\ inventory.items[i] = EMPTY
                        /\ \A j \in 1..(i - 1) : inventory.items[j] # EMPTY]
                = item]
    ELSE inventory

\* `fetcher.iter_mut().find(|q| q.name.as_ref() == player)`: the first
\* player of that name, or 0
find_player(names, wanted) ==
    IF \E p \in PLAYERS : names[p] = wanted
    THEN CHOOSE p \in PLAYERS :
            /\ names[p] = wanted
            /\ \A q \in PLAYERS : names[q] = wanted => p <= q
    ELSE 0

\* variant: the first token is not compared with "give"
MutGiveAnyFirstToken(raw, names, inv, bufs) ==
    LET same == [inventories |-> inv, packets |-> bufs]
        arguments == split_whitespace(raw)
    IN  IF ~starts_with(raw, GIVE) THEN same
        ELSE IF Len(arguments) < 4 THEN same
        ELSE LET p == find_player(names, arguments[2])
                 item == ItemStack(
                            unwrap_or(ItemKind_from_str(arguments[3]),
                                      "AcaciaBoat"),
                            unwrap_or(parse(arguments[4]), 1))
             IN  IF p = 0 THEN same
                 ELSE LET inventory == set_first_available(inv[p], item)
                      IN  [inventories |-> [inv EXCEPT ![p] = inventory],
                           packets |-> [bufs EXCEPT ![p] =
                              send_inventory_update(inventory, bufs[p])]]
\* give_command for one Command of text raw: what it makes of the players'
\* inventories and packets
give_command(raw, names, inv, bufs) ==
    LET same == [inventories |-> inv, packets |-> bufs]
        arguments == split_whitespace(raw)
    IN  IF ~starts_with(raw, GIVE) THEN same
        ELSE IF Len(arguments) < 4 THEN same
        ELSE IF ~eq_ignore_ascii_case(arguments[1], GIVE) THEN same
        ELSE LET p == find_player(names, arguments[2])
                 item == ItemStack(
                            unwrap_or(ItemKind_from_str(arguments[3]),
                                      "AcaciaBoat"),
                            unwrap_or(parse(arguments[4]), 1))
             IN  IF p = 0 THEN same
                 ELSE LET inventory == set_first_available(inv[p], item)
                      IN  [inventories |-> [inv EXCEPT ![p] = inventory],
                           packets |-> [bufs EXCEPT ![p] =
                              send_inventory_update(inventory, bufs[p])]]

\* the words and the separators the commands explored are made of
RECURSIVE join(_, _)
join(words, sep) ==
    IF words = << >> THEN << >>
    ELSE IF Len(words) = 1 THEN Head(words)
    ELSE Head(words) \o sep \o join(Tail(words), sep)
\* the words of the commands explored
STONE == <<"s", "t", "o", "n", "e">>
FirstWords ==
    {<<"G", "i", "v", "e">>, <<"g", "i", "v", "e", "n">>, <<"s", "a", "y">>}
PlayerWords == {<<"a">>, <<"b", "o">>, <<"b">>}
ItemWords ==
    {<<STONE, <<"2">> >>, << <<"x">>, <<"z">> >>, << <<"x">>, <<"2", "0", "0">> >>}
\* the commands explored: `give <player> <item> <amount>` for these words,
\* and `give a stone 2` with words missing, a word added, another first
\* word, a space in front, or wider gaps
Commands ==
    LET order == <<GIVE, <<"a">>, STONE, <<"2">> >>
    IN  {join(<<GIVE, p, i[1], i[2]>>, <<" ">>) :
            p \in PlayerWords, i \in ItemWords}
        \cup {join(SubSeq(order, 1, n), <<" ">>) : n \in 0..3}
        \cup {join(<<f>> \o Tail(order), <<" ">>) : f \in FirstWords}
        \cup {join(order \o << <<"1">> >>, <<" ">>),
              <<" ">> \o join(order, <<" ">>),
              join(order, <<" ", "\t">>) \o <<" ">>}

\* a Command is dispatched to give_command
Give ==
    \E raw \in Commands :
        LET r == give_command(raw, InGameName, inventories, packets)
        IN  /\ pending(r.packets, PLAYERS) <= MaxPackets
            /\ inventories' = r.inventories
            /\ packets' = r.packets
            /\ sender' = << >>
            /\ served' = [event |-> "Command", raw |-> raw]
            /\ UNCHANGED notInventoryVars

\* the egress stage takes the packets of every player to send them
Egress ==
    /\ \E p \in PLAYERS : packets[p] # << >>
    /\ packets' = [p \in PLAYERS |-> << >>]
    /\ sender' = << >>
    /\ served' = [event |-> "Egress"]
    /\ UNCHANGED inventories
    /\ UNCHANGED notInventoryVars

NextClick == Click \/ Egress
NextGive == Give \/ Egress

\* the players joined, nothing in their inventories, nothing to send
\* no hurt call has changed the entity's vitals yet
NoHit == -1
WindowAtInit == landed = NoHit

InventoryAtInit ==
    /\ inventories = [p \in PLAYERS |-> NoItems]
    /\ packets = [p \in PLAYERS |-> << >>]
    /\ sender = << >>
    /\ served = [event |-> "None"]

---------------------------------------------------------------------------
(* The driver thread running Game::game_loop, and the signal thread *)

\* Game::init: `game.last_ticks.push_back(Instant::now())`
\* a player in Play with KeepAlive::default(), no ping sent yet
KeepAliveAtInit ==
    /\ keep_alive = [last_sent |-> None, unresponded |-> FALSE]
    /\ login = "Play"
    /\ pings = 0
    /\ seconds = 0

\* no event sent yet, no handler running
DispatchAtInit ==
    /\ queue = << >>
    /\ todo = << >>
    /\ running = {}
    /\ handled = [e \in EVENTS |-> 0]

\* a joining player's pose, not moved yet
PoseAtInit ==
    /\ pose = player
    /\ moves = 0

\* Game::init: no player or mob yet, PlayerBoundingBoxes::default()
WorldAtInit ==
    /\ entities = [id \in 1..MaxEntities |-> NoEntity]
    /\ lookup = {}
    /\ rebuilt = FALSE

InitGame ==
    /\ WorldAtInit
    /\ PoseAtInit
    /\ DispatchAtInit
    /\ KeepAliveAtInit
    /\ InventoryAtInit
    /\ WindowAtInit
    /\ clock = ZERO
    /\ last_ticks = <<ZERO>>
    /\ last_ms_per_tick = << >>
    /\ tick_on = 0
    /\ calls = [started |-> 0, returned |-> 0, after_flag |-> 0]
    /\ SHUTDOWN = FALSE
    /\ pc = "loop"
    /\ wait = None
    /\ sent = << >>
    \* one entity, left alone: Vitals::ALIVE, ImmuneStatus::default()
    /\ vitals = ALIVE([end_tick |-> 0, bonus_health |-> 0],
                      [end_tick |-> 0, amount_per_tick |-> 0])
    /\ immune = [until |-> 0]
    /\ global = [tick |-> 0, max_hurt_resistant_time |-> 0]
    /\ call = NoCall

\* the loop left as soon as the flag is set, wherever the tick stands
MutExitAnywhere ==
    /\ pc # "done"
    /\ SHUTDOWN
    /\ pc' = "done"
    /\ UNCHANGED <<last_ticks, last_ms_per_tick, tick_on, calls, SHUTDOWN, clock, wait, sent>>
    /\ UNCHANGED notGameVars

\* game_loop: the `while !SHUTDOWN.load(..)` test reads true and the loop ends
Exit ==
    /\ pc = "loop"
    /\ SHUTDOWN
    /\ pc' = "done"
    /\ UNCHANGED <<last_ticks, last_ms_per_tick, tick_on, calls, SHUTDOWN, clock, wait, sent>>
    /\ UNCHANGED notGameVars

\* game_loop: the `while !SHUTDOWN.load(..)` test reads false, for a loop
\* followed through `limit` ticks
EnterOf(limit) ==
    /\ pc = "loop"
    /\ ~SHUTDOWN
    /\ tick_on < limit
    /\ pc' = "tick"
    /\ UNCHANGED <<last_ticks, last_ms_per_tick, tick_on, calls, SHUTDOWN, clock, wait, sent>>
    /\ UNCHANGED notGameVars

\* tick: `let now = Instant::now()` up to `self.last_ticks.push_back(now)`
TickStart ==
    /\ pc = "tick"
    /\ last_ticks' = push_tick(last_ticks, clock)
    /\ sent' = << >>
    /\ calls' = [calls EXCEPT !.started = @ + 1,
                              !.after_flag = IF SHUTDOWN THEN @ + 1 ELSE @]
    /\ pc' = "gametick"
    /\ UNCHANGED <<last_ms_per_tick, tick_on, SHUTDOWN, clock, wait>>
    /\ UNCHANGED notGameVars

\* tick: `self.world.send(Gametick)`, whose handlers take one of `works`
GametickOf(works) ==
    /\ pc = "gametick"
    /\ \E work \in works : clock' = add(clock, work)
    /\ sent' = Append(sent, send("Gametick"))
    /\ pc' = "egress"
    /\ UNCHANGED <<last_ticks, last_ms_per_tick, tick_on, calls, SHUTDOWN, wait>>
    /\ UNCHANGED notGameVars

\* tick: `self.world.send(Egress)`
SendEgress ==
    /\ pc = "egress"
    /\ sent' = Append(sent, send("Egress"))
    /\ pc' = "stats"
    /\ UNCHANGED <<last_ticks, last_ms_per_tick, tick_on, calls, SHUTDOWN, clock, wait>>
    /\ UNCHANGED notGameVars

\* tick: `let ms = now.elapsed()..; self.update_tick_stats(ms)` up to the
\* `self.last_ms_per_tick.pop_front()`
RecordStats ==
    /\ pc = "stats"
    /\ LET now == last_ticks[Len(last_ticks)]
           stats == update_tick_stats(last_ms_per_tick, as_nanos(sub(clock, now)))
       IN  /\ last_ms_per_tick' = stats.history
           /\ sent' = sent \o stats.events
    /\ pc' = "count"
    /\ UNCHANGED <<last_ticks, tick_on, calls, SHUTDOWN, clock, wait>>
    /\ UNCHANGED notGameVars

\* update_tick_stats: `self.tick_on += 1`, and tick returns
CountTick ==
    /\ pc = "count"
    /\ tick_on' = count_tick(tick_on)
    /\ calls' = [calls EXCEPT !.returned = @ + 1]
    /\ pc' = "wait"
    /\ UNCHANGED <<last_ticks, last_ms_per_tick, SHUTDOWN, clock, wait, sent>>
    /\ UNCHANGED notGameVars

\* game_loop: `self.wait_duration()`
WaitDuration ==
    /\ pc = "wait"
    /\ wait' = wait_duration(last_ticks, clock)
    /\ pc' = IF wait'.tag = "Some" THEN "sleep" ELSE "loop"
    /\ UNCHANGED <<last_ticks, last_ms_per_tick, tick_on, calls, SHUTDOWN, clock, sent>>
    /\ UNCHANGED notGameVars

\* game_loop: `spin_sleep::sleep(wait_duration)`
Sleep ==
    /\ pc = "sleep"
    /\ clock' = add(clock, wait.d)
    /\ pc' = "loop"
    /\ UNCHANGED <<last_ticks, last_ms_per_tick, tick_on, calls, SHUTDOWN, wait, sent>>
    /\ UNCHANGED notGameVars

\* the signal thread: `SHUTDOWN.store(true, ..)`
Signal ==
    /\ ~SHUTDOWN
    /\ SHUTDOWN' = TRUE
    /\ UNCHANGED <<last_ticks, last_ms_per_tick, tick_on, calls, clock, pc, wait, sent>>
    /\ UNCHANGED notGameVars

\* the loop followed through MaxTicks ticks of any of WorkDurations
Enter == EnterOf(MaxTicks)
Gametick == GametickOf(WorkDurations)

NextGame ==
    \/ Exit \/ Enter \/ TickStart \/ Gametick \/ SendEgress \/ RecordStats
    \/ CountTick \/ WaitDuration \/ Sleep \/ Signal

\* A long run of the same loop: LongTicks ticks, enough to fill both histories
\* and go on.  The handlers of tick n take 1..7 ms in a fixed rotation, and
\* every JitterEvery-th tick may instead take LongTickMillis.
LongWork ==
    {Duration(0, ((tick_on % 7) + 1) * NANOS_PER_MILLI)}
        \cup (IF tick_on % JitterEvery = 0
              THEN {Duration(0, LongTickMillis * NANOS_PER_MILLI)}
              ELSE {})

EnterLong == EnterOf(LongTicks)
GametickLong == GametickOf(LongWork)

NextLong ==
    \/ Exit \/ EnterLong \/ TickStart \/ GametickLong \/ SendEgress
    \/ RecordStats \/ CountTick \/ WaitDuration \/ Sleep \/ Signal

\* A short run of the loop against the signal thread: ShutdownTicks ticks
\* with the work of the long run.
EnterShutdown == EnterOf(ShutdownTicks)

\* the steps of the driver thread
Driver ==
    \/ Exit \/ EnterShutdown \/ TickStart \/ GametickLong \/ SendEgress
    \/ RecordStats \/ CountTick \/ WaitDuration \/ Sleep

NextShutdown ==
    \/ Exit \/ EnterShutdown \/ TickStart \/ GametickLong \/ SendEgress
    \/ RecordStats \/ CountTick \/ WaitDuration \/ Sleep \/ Signal

---------------------------------------------------------------------------
(* The vitals machine driven by heal and hurt calls at advancing ticks *)

InitVitals ==
    /\ \E e \in 0..MaxAbsEnd, b \in 0..MaxBonus :
          vitals = ALIVE([end_tick |-> e, bonus_health |-> b],
                         [end_tick |-> 0, amount_per_tick |-> 0])
    /\ immune = [until |-> 0]
    /\ \E m \in 0..MaxResist : global = [tick |-> 0, max_hurt_resistant_time |-> m]
    /\ call = NoCall
    \* the game as Game::init leaves it; the loop is not running
    /\ WorldAtInit
    /\ PoseAtInit
    /\ DispatchAtInit
    /\ KeepAliveAtInit
    /\ InventoryAtInit
    /\ WindowAtInit
    /\ clock = ZERO
    /\ last_ticks = <<ZERO>>
    /\ last_ms_per_tick = << >>
    /\ tick_on = 0
    /\ calls = [started |-> 0, returned |-> 0, after_flag |-> 0]
    /\ SHUTDOWN = FALSE
    /\ pc = "loop"
    /\ wait = None
    /\ sent = << >>

\* some system calls vitals.heal(amount)
Heal ==
    \E amount \in 1..MaxAmount :
        /\ call' = [op |-> "heal", amount |-> amount, global |-> global,
                    vitals |-> vitals, immune |-> immune]
        /\ vitals' = heal(vitals, amount)
        /\ UNCHANGED <<immune, global>>
        /\ UNCHANGED notVitalsVars

\* some system calls vitals.hurt(&global, amount, &mut immune)
Hurt ==
    \E amount \in 0..MaxAmount :
        LET r == hurt(vitals, global, amount, immune) IN
        /\ call' = [op |-> "hurt", amount |-> amount, global |-> global,
                    vitals |-> vitals, immune |-> immune]
        /\ vitals' = r.vitals
        /\ immune' = r.immune
        /\ UNCHANGED global
        /\ UNCHANGED notVitalsVars

\* the game advances to the next tick
update_time ==
    /\ global.tick < MaxTick
    /\ global' = [global EXCEPT !.tick = global.tick + 1]
    /\ UNCHANGED <<vitals, immune, call>>
    /\ UNCHANGED notVitalsVars

NextVitals == Heal \/ Hurt \/ update_time

\* hurt calls on one entity at ticks that do not decrease, with longer
\* invulnerability windows: the entity as Vitals::ALIVE with some absorption
InitWindow ==
    /\ \E e \in 0..MaxAbsEnd, b \in 0..MaxBonus :
          vitals = ALIVE([end_tick |-> e, bonus_health |-> b],
                         [end_tick |-> 0, amount_per_tick |-> 0])
    /\ immune = [until |-> 0]
    /\ \E m \in 0..MaxHitResist :
          global = [tick |-> 0, max_hurt_resistant_time |-> m]
    /\ call = NoCall
    /\ WorldAtInit
    /\ PoseAtInit
    /\ DispatchAtInit
    /\ KeepAliveAtInit
    /\ InventoryAtInit
    /\ WindowAtInit
    /\ clock = ZERO
    /\ last_ticks = <<ZERO>>
    /\ last_ms_per_tick = << >>
    /\ tick_on = 0
    /\ calls = [started |-> 0, returned |-> 0, after_flag |-> 0]
    /\ SHUTDOWN = FALSE
    /\ pc = "loop"
    /\ wait = None
    /\ sent = << >>

\* the amounts of the hits: none, small ones, and one that kills
HitAmounts == 0..MaxHit \cup {MAX_HEALTH + MaxBonus}

\* some system calls vitals.hurt(&global, amount, &mut immune); landed keeps
\* the tick of the call if it changed the vitals
Hit ==
    \E amount \in HitAmounts :
        LET r == hurt(vitals, global, amount, immune) IN
        /\ call' = [op |-> "hurt", amount |-> amount, global |-> global,
                    vitals |-> vitals, immune |-> immune]
        /\ vitals' = r.vitals
        /\ immune' = r.immune
        /\ landed' = IF r.vitals # vitals THEN global.tick ELSE landed
        /\ UNCHANGED global
        /\ UNCHANGED notHitVars

\* the game advances to the next tick
Advance ==
    /\ global.tick < MaxHitTick
    /\ global' = [global EXCEPT !.tick = global.tick + 1]
    /\ UNCHANGED <<vitals, immune, call>>
    /\ UNCHANGED notVitalsVars

NextWindow == Hit \/ Advance

---------------------------------------------------------------------------
(* Specifications *)

\* the vitals machine, the game loop not yet started
Spec == InitVitals /\ [][NextVitals]_vars

\* the game loop, the entity left alone
SpecGame == InitGame /\ [][NextGame]_vars
SpecLong == InitGame /\ [][NextLong]_vars
\* the driver thread keeps running: its handlers return and its sleeps end
SpecShutdown == InitGame /\ [][NextShutdown]_vars /\ WF_vars(Driver)

\* the handlers changing the world's entities, and the rebuild of the index
SpecWorld == InitGame /\ [][NextWorld]_vars

\* the handlers moving one pose
SpecPose == InitGame /\ [][NextPose]_vars

\* the dispatch of events to the handlers
SpecDispatch == InitGame /\ [][NextDispatch]_vars

\* the keep-alive stage and the client of one player
SpecKeepAlive == InitGame /\ [][NextKeepAlive]_vars

\* the clicks of the players, and the give commands
SpecClick == InitGame /\ [][NextClick]_vars
SpecGive == InitGame /\ [][NextGive]_vars

\* the hurt calls on one entity over longer invulnerability windows
SpecWindow == InitWindow /\ [][NextWindow]_vars

---------------------------------------------------------------------------
(* Properties of Vitals::heal and Vitals::hurt (checked under Spec).        *)
(* `call` holds the arguments of the last call and the components before   *)
(* it; vitals and immune hold the components after it.                     *)

HurtCalled == call.op = "hurt"
HealCalled == call.op = "heal"
\* the hurt call was made inside the immunity window
CallImmune == call.global.tick < call.immune.until
\* absorption was in effect at the call
CallAbsorbing == call.global.tick < call.vitals.absorption.end_tick
\* the effective bonus health at the call
CallBonus == IF CallAbsorbing THEN call.vitals.absorption.bonus_health ELSE 0
\* the damage absorption did not take
CallUnabsorbed == Max(0, call.amount - CallBonus)

\* C1: a hurt call made while global.tick < immune.until changes neither the
\* vitals (state, health, absorption, respawn_tick) nor immune.until, whatever
\* the amount and whether the entity is Alive or Dead; is_invincible is true
\* in exactly those states.
C1_HurtWhileImmuneChangesNothing ==
    HurtCalled =>
        /\ is_invincible(call.immune, call.global) <=> CallImmune
        /\ CallImmune => vitals = call.vitals /\ immune = call.immune

C1_Witness ==
    /\ HurtCalled /\ CallImmune
    /\ call.amount > 0
    /\ call.vitals.state = "Alive"
    /\ call.vitals.health <= call.amount

\* C2: after a hurt call made with global.tick >= immune.until, immune.until
\* is global.tick + max_hurt_resistant_time / 2 (integer division), also for a
\* Dead target, for fully absorbed damage and for amount 0.
C2_HurtSetsImmuneUntil ==
    (HurtCalled /\ ~CallImmune) =>
        immune.until = call.global.tick + call.global.max_hurt_resistant_time \div 2

C2_Witness ==
    /\ HurtCalled /\ ~CallImmune
    /\ call.amount = 0
    /\ call.global.max_hurt_resistant_time = 3
    /\ immune.until = call.global.tick + 1
    /\ immune.until > call.immune.until

\* C3: a non-immune hurt on an Alive entity takes the damage from absorption
\* first: the health lost is max(0, amount - b) with b the bonus health while
\* absorption is active and 0 once it has expired; an active absorption is
\* left with max(0, bonus_health - amount), an expired one is left unchanged.
\* (An entity that dies keeps no health or absorption to compare.)
C3_AbsorptionFirst ==
    (HurtCalled /\ ~CallImmune /\ call.vitals.state = "Alive" /\ vitals.state = "Alive") =>
        /\ vitals.health = call.vitals.health - CallUnabsorbed
        /\ vitals.absorption.bonus_health =
              IF CallAbsorbing
              THEN Max(0, call.vitals.absorption.bonus_health - call.amount)
              ELSE call.vitals.absorption.bonus_health
        /\ vitals.absorption.end_tick = call.vitals.absorption.end_tick

C3_Witness ==
    /\ HurtCalled /\ ~CallImmune /\ call.vitals.state = "Alive"
    /\ CallAbsorbing
    /\ call.vitals.absorption.bonus_health > 0
    /\ call.amount > call.vitals.absorption.bonus_health
    /\ vitals.state = "Alive"
    /\ vitals.health < call.vitals.health

\* C4: a non-immune hurt turns an Alive entity Dead if and only if its health
\* less the unabsorbed damage is <= 0, and then into exactly
\* Dead{respawn_tick = global.tick + 100}; otherwise it stays Alive.
C4_DeadIffHealthGone ==
    (HurtCalled /\ ~CallImmune /\ call.vitals.state = "Alive") =>
        IF call.vitals.health - CallUnabsorbed <= 0
        THEN vitals = [state |-> "Dead", respawn_tick |-> call.global.tick + 100]
        ELSE vitals.state = "Alive"

C4_Witness ==
    /\ HurtCalled /\ ~CallImmune /\ call.vitals.state = "Alive"
    /\ call.vitals.health - CallUnabsorbed = 0
    /\ vitals.state = "Dead"

\* C5: from Vitals::ALIVE, after any heal (amount > 0) and hurt (amount >= 0)
\* calls at any ticks, an Alive entity has 0 < health <= 20.
C5_AliveHealthInRange ==
    vitals.state = "Alive" => (0 < vitals.health /\ vitals.health <= 20)

C5_Witness ==
    /\ HurtCalled
    /\ vitals.state = "Alive"
    /\ vitals.health = 1

\* C6: heal(amount > 0) sets an Alive entity's health to
\* min(20, old health + amount) and leaves its absorption and regeneration
\* unchanged; on a Dead entity it changes nothing.
C6_HealClampsAt20 ==
    HealCalled =>
        /\ immune = call.immune
        /\ IF call.vitals.state = "Alive"
           THEN /\ vitals.state = "Alive"
                /\ vitals.health = Min(20, call.vitals.health + call.amount)
                /\ vitals.absorption = call.vitals.absorption
                /\ vitals.regeneration = call.vitals.regeneration
           ELSE vitals = call.vitals

C6_Witness ==
    /\ HealCalled
    /\ call.vitals.state = "Alive"
    /\ call.vitals.health < 20
    /\ call.vitals.health + call.amount > 20
    /\ vitals.health = 20

\* C7: no heal or hurt call takes a Dead entity back to Alive or changes its
\* respawn_tick; a hurt on a Dead entity past the immunity window only moves
\* immune.until (never back).
C7_DeadStaysDead ==
    [][vitals.state = "Dead" =>
          (vitals' = vitals /\ immune'.until >= immune.until)]_vars

C7_Witness ==
    /\ HurtCalled /\ ~CallImmune
    /\ call.vitals.state = "Dead"
    /\ vitals = call.vitals
    /\ immune.until > call.immune.until

\* C8: absorption.bonus_health, >= 0 to begin with, is never negative after
\* any heal and hurt (amount >= 0) calls.
C8_BonusHealthNonNegative ==
    vitals.state = "Alive" => vitals.absorption.bonus_health >= 0

C8_Witness ==
    /\ HurtCalled /\ ~CallImmune /\ call.vitals.state = "Alive"
    /\ CallAbsorbing
    /\ call.amount > 0
    /\ call.amount = call.vitals.absorption.bonus_health
    /\ vitals.absorption.bonus_health = 0

---------------------------------------------------------------------------
(* Properties of the pacer (checked under SpecGame).  At pc = "sleep"      *)
(* wait_duration has just returned `wait`, having read `clock` as now.     *)

\* the 20 Hz target of the next tick: the oldest recorded tick start plus
\* 50 ms per recorded tick start
Target ==
    add(Head(last_ticks),
        [secs |-> Len(last_ticks) \div 20,
         nanos |-> (Len(last_ticks) % 20) * 50 * NANOS_PER_MILLI])

\* wait_duration has just returned none
ReturnedNone == pc = "loop" /\ tick_on > 0 /\ wait = None
\* wait_duration has just returned a duration
ReturnedSome == pc = "sleep"

FortySevenMillis == [secs |-> 0, nanos |-> 47 * NANOS_PER_MILLI]

\* C9: wait_duration returns none when the target instant is already past
\* and otherwise 0.8 x (target - now) capped at 47 ms: no returned duration is
\* longer than 47 ms.
C9_WaitAtMost47Millis ==
    /\ ReturnedNone => lt(Target, clock)
    /\ ReturnedSome =>
          /\ wait.tag = "Some"
          /\ le(clock, Target)
          /\ LET scaled == mul_f64_0_8(sub(Target, clock))
             IN  wait.d = IF lt(FortySevenMillis, scaled) THEN FortySevenMillis
                          ELSE scaled
          /\ le(wait.d, FortySevenMillis)

\* C10: the sleep never overshoots the 20 Hz target: a duration d returned at
\* instant now has now + d <= target, so the loop is back, ready to start the
\* next tick, no later than the target.
C10_SleepNeverOvershoots ==
    /\ ReturnedSome => le(add(clock, wait.d), Target)
    /\ (pc = "loop" /\ wait.tag = "Some") => le(clock, Target)

\* a sleep that ends exactly on the target: 1 ns to go, 0.8 ns rounded to 1 ns
C10_Witness ==
    /\ ReturnedSome
    /\ lt(ZERO, wait.d)
    /\ add(clock, wait.d) = Target

(***************************************************************************)
(* The tick history, the statistics and the tick counter                   *)
(***************************************************************************)

\* C11: last_ticks never holds more than LAST_TICK_HISTORY_SIZE = 100
\* instants, whatever the number of ticks, and is never empty.
C11_LastTicksAtMost100 ==
    /\ Len(last_ticks) >= 1
    /\ Len(last_ticks) <= LAST_TICK_HISTORY_SIZE

\* the StatsEvents among the events sent so far by the tick in progress
StatsSent == {i \in 1..Len(sent) : sent[i].event = "StatsEvent"}

\* the tick in progress, counted from 1, has recorded its duration
StatsRecorded == pc = "count"

\* C12: the duration history holds at most MSPT_HISTORY_SIZE = 100 samples
\* after every tick, every tick from the 100th onward emits exactly one
\* StatsEvent, and no earlier tick emits one.
C12_StatsFromThe100thTick ==
    /\ Len(last_ms_per_tick) <= MSPT_HISTORY_SIZE
    /\ StatsRecorded =>
         Cardinality(StatsSent) =
            (IF tick_on + 1 >= MSPT_HISTORY_SIZE THEN 1 ELSE 0)

\* what the code does instead: the first StatsEvent comes with the 101st
\* tick, the first one that finds 100 samples already stored
StatsFromThe101stTick ==
    StatsRecorded =>
        Cardinality(StatsSent) =
            (IF tick_on + 1 > MSPT_HISTORY_SIZE THEN 1 ELSE 0)

\* the sum of the n newest samples of the history
SumOfNewest(n) ==
    Sum(SubSeq(last_ms_per_tick, Len(last_ms_per_tick) - n + 1,
               Len(last_ms_per_tick)))

\* the duration of the tick in progress, measured from its start instant
TickDuration == as_nanos(sub(clock, last_ticks[Len(last_ticks)]))

\* C13: every StatsEvent carries the mean of the 20 most recent tick
\* durations and the mean of the 100 most recent ones, both counting the
\* tick just completed as the newest sample and leaving out every older one.
C13_MeansOfNewestSamples ==
    StatsRecorded =>
        \A i \in StatsSent :
            /\ last_ms_per_tick[Len(last_ms_per_tick)] = TickDuration
            /\ sent[i].ms_per_tick_mean_1s = [sum |-> SumOfNewest(20), count |-> 20]
            /\ sent[i].ms_per_tick_mean_5s = [sum |-> SumOfNewest(100), count |-> 100]

C13_Witness ==
    /\ StatsRecorded
    /\ \E i \in StatsSent :
          /\ sent[i].ms_per_tick_mean_1s.sum * 5 # sent[i].ms_per_tick_mean_5s.sum
          /\ last_ms_per_tick[1] # TickDuration

\* C14: tick_on starts at 0 and equals the number of completed calls of tick;
\* each tick increments it exactly once, by one, and only after the tick's
\* duration has been recorded and its StatsEvent, if it has one, was sent.
C14_TickOnCountsTicks ==
    /\ [](tick_on = calls.returned)
    /\ [][tick_on' # tick_on =>
            /\ tick_on' = tick_on + 1
            /\ calls.started = calls.returned + 1
            /\ StatsRecorded
            /\ last_ms_per_tick[Len(last_ms_per_tick)] = TickDuration
            /\ StatsFromThe101stTick
            /\ UNCHANGED <<last_ms_per_tick, sent>>]_vars

C14_Witness ==
    /\ pc = "wait"
    /\ tick_on > MSPT_HISTORY_SIZE
    /\ tick_on = calls.started
    /\ StatsSent # {}

(***************************************************************************)
(* Shutdown                                                                *)
(***************************************************************************)

\* a call of tick is in progress
InTick == calls.started # calls.returned

\* a call of tick starts in this step
TickStarts == calls'.started # calls.started

\* the last call of tick ran to its end: both events dispatched in order,
\* the duration recorded and tick_on incremented
TickCompleted ==
    /\ ~InTick
    /\ tick_on = calls.started
    /\ Len(sent) >= 2 /\ sent[1].event = "Gametick" /\ sent[2].event = "Egress"
    /\ Len(last_ms_per_tick) >= 1

\* the flag is never cleared, game_loop returns only from its loop test, and
\* with every tick it started completed
FlagPolledBetweenTicks ==
    /\ [][SHUTDOWN => SHUTDOWN']_vars
    /\ [][pc' = "done" /\ pc # "done" => pc = "loop" /\ SHUTDOWN]_vars
    /\ [](pc = "done" /\ calls.started > 0 => TickCompleted)

\* once the flag is set, the tick in progress runs to its end and game_loop
\* eventually returns
ShutdownCompletes ==
    /\ (SHUTDOWN /\ InTick) ~> TickCompleted
    /\ SHUTDOWN ~> (pc = "done")

Ran(hs, h) == {i \in 1..Len(hs) : hs[i] = h}

\* the Gametick dispatches of the tick in progress
GameticksSent == {k \in 1..Len(sent) : sent[k].event = "Gametick"}

\* tick is past its `self.world.send(Gametick)`
GametickDone == pc \in {"egress", "stats", "count", "wait"}

PlayersWithPose ==
    {[id |-> id, aabb |-> b] : id \in DOMAIN entities, b \in Boxes}
        \cap {item \in [id : DOMAIN entities, aabb : Boxes] :
                /\ entities[item.id] # NoEntity
                /\ entities[item.id].player
                /\ entities[item.id].pose = Some(item.aabb)}

\* C17: after rebuild_player_location has run, PlayerBoundingBoxes holds
\* exactly the pairs (id, pose.bounding) of the entities that have both the
\* Player marker and a FullEntityPose, whatever their login state: no mob,
\* no pose-less entity, no player missing, no entry of an earlier rebuild.
C17_IndexHoldsExactlyThePlayers ==
    rebuilt => lookup = PlayersWithPose

C17_Witness ==
    /\ rebuilt
    /\ Cardinality(lookup) = 1
    /\ \E id \in DOMAIN entities :
          /\ entities[id] # NoEntity
          /\ entities[id].player
          /\ entities[id].login # "Play"
          /\ entities[id].pose # None
    /\ \E id \in DOMAIN entities :
          /\ entities[id] # NoEntity
          /\ ~entities[id].player
          /\ entities[id].pose # None

(***************************************************************************)
(* The pose and its bounding box                                           *)
(***************************************************************************)

\* C18: after any calls of move_by and move_to on FullEntityPose::player(),
\* the bounding box is the one recomputed from the position and the player's
\* dimensions: 0.6 wide, 1.8 high, centred on the position along x and z,
\* with min.y = position.y.
C18_BoxRecomputedFromPosition ==
    pose.bounding = create(pose.position, WIDTH, HEIGHT)

\* what holds instead: the foot of the box follows the position exactly
\* along y, where both take the same sums
FeetFollowPosition == pose.bounding.min.y = pose.position.y

(***************************************************************************)
(* The access of the handlers to the record kinds                          *)
(***************************************************************************)

\* the accesses to a record kind in a mode held now: one for each param of
\* a running handler
Held(kind, mode) ==
    {<<h, i>> \in running \X (1..3) :
        i <= Len(ACCESS[h]) /\ ACCESS[h][i] = [kind |-> kind, mode |-> mode]}

RecordKinds ==
    {"PlayerBoundingBoxes", "FullEntityPose", "PlayerInventory", "Packets",
     "InGameName"}

C20_AtMostOnePingUnresponded ==
    /\ pings <= 1
    /\ pings = 1 => keep_alive.unresponded

\* what holds instead: never more than two, the first ping and one more
AtMostTwoPingsUnresponded == pings <= 2

---------------------------------------------------------------------------
(* get_inventory_actions and give_command *)

\* C21: get_inventory_actions answers every ClickEvent with exactly one
\* InventoryS2c packet, appended to the packets of the player the click is
\* by and holding that player's slots and carried item as they are after
\* append_slot_changes, whether append_slot_changes returned Ok or Err; no
\* other player's packets change; and it sends UpdateEquipment for that
\* player exactly when append_slot_changes returned Ok with
\* update_equipment set, and sends nothing otherwise.
C21_OneUpdatePerClick ==
    [][served'.event = "ClickEvent" =>
        LET by == served'.by
            now_held == inventories'[by]
            equipment == served'.ok /\ served'.update_equipment
        IN  /\ packets'[by] =
                  Append(packets[by],
                         InventoryS2c(now_held.items, now_held.carried_item))
            /\ \A p \in PLAYERS \ {by} : packets'[p] = packets[p]
            /\ equipment =>
                  sender' = <<[event |-> "UpdateEquipment", id |-> by]>>
            /\ ~equipment => sender' = << >>]_vars

\* a click that append_slot_changes refused was answered, after an update
\* still in the buffer, with something carried
C21_Witness ==
    /\ served.event = "ClickEvent"
    /\ ~served.ok
    /\ Len(packets[served.by]) = 2
    /\ packets[served.by][2].carried_item # EMPTY
    /\ packets[served.by][2] # packets[served.by][1]

\* the command is well-formed: it starts with "give", its first word is
\* "give", it has the four words give <player> <item> <amount> at least,
\* and its second word is the name of a player
WellFormed(raw) ==
    /\ starts_with(raw, GIVE)
    /\ Len(split_whitespace(raw)) >= 4
    /\ split_whitespace(raw)[1] = GIVE
    /\ \E p \in PLAYERS : InGameName[p] = split_whitespace(raw)[2]

---------------------------------------------------------------------------
(* Invulnerability windows *)

\* the ticks of invulnerability a hit grants: max_hurt_resistant_time / 2
WindowTicks == DivTrunc(global.max_hurt_resistant_time, 2)

\* this step is a hurt call (the tick does not advance in it)
HurtStep == global' = global /\ call'.op = "hurt"

\* C23: with k = max_hurt_resistant_time / 2 >= 1, over hurt calls on one
\* entity at ticks that do not decrease, a hurt call that changes the
\* entity's health, absorption or alive state comes at least k ticks after
\* the last one that did, and a hurt call in the tick of a hit that landed
\* changes nothing; with k = 0 no hurt call is ignored: each one sets
\* immune.until to its tick, is never met by an open window, and changes
\* the vitals of an Alive entity if its amount is positive.
C23_HitsAWindowApart ==
    /\ [][HurtStep /\ WindowTicks >= 1 /\ landed # NoHit =>
            /\ vitals' # vitals => global.tick - landed >= WindowTicks
            /\ landed = global.tick =>
                  vitals' = vitals /\ immune' = immune]_vars
    /\ [][HurtStep /\ WindowTicks = 0 =>
            /\ ~is_invincible(immune, global)
            /\ immune'.until = global.tick
            /\ vitals.state = "Alive" /\ call'.amount > 0 =>
                  vitals' # vitals]_vars

\* with a window of two ticks, a hit landed in the tick its window ended,
\* the window having been opened by a hit that landed two ticks before
C23_Witness ==
    /\ WindowTicks = 2
    /\ call # NoCall
    /\ call.op = "hurt"
    /\ call.vitals # vitals
    /\ landed = global.tick
    /\ call.immune.until = global.tick
    /\ call.vitals.state = "Alive"
    /\ call.vitals.health < MAX_HEALTH

====
